---- MODULE Spec2Model ----
(***************************************************************************)
(* The useWebSocket hook of src/src/hooks/useWebSocket.ts as a state       *)
(* machine: the hook's React state and refs, the WebSocket handles it has  *)
(* created, its retry timers, and the events the transport and the timers  *)
(* deliver to its listeners.  One action is one run-to-completion task of  *)
(* the single-threaded event loop.                                          *)
(***************************************************************************)
EXTENDS Integers, Sequences, FiniteSets, TLC

\* ------------------------------------------------------------------ bounds
MaxHandles == 3       \* WebSocket objects created in one run
MaxMsgs == 2          \* sendMessage calls in one run
MaxReconnects == 1    \* reconnect() calls in one run
MaxRetriesOpt == 2    \* largest value of the maxRetries option
MaxAttempts == 3      \* largest maxRetries argument of retryWithBackoff
MaxRequests == 3      \* requests made through the ApiClient in one run

\* The retryDelay option as AlarmList passes it (ms).
RetryDelays == {2000}

\* The options AlarmList passes besides retryDelay, and the connection
\* timeout connect() hard-codes (ms).
AlarmMaxRetries == 3
ConnectTimeoutMs == 5000

\* Inbound frames: one that parses as JSON and one that does not.
Frames == {"{\"event\":\"alarm.created\"}", "not json"}

VARIABLES
    maxRetries, retryDelay, shouldReconnect,   \* options (lines 78-86)
    state, lastMessage, error,                 \* useState cells (68-70)
    webSocketRef, retriesRef, retryTimeoutRef, \* refs (72-74)
    messageQueueRef,                           \* ref (75)
    ws,          \* the WebSocket objects created so far, by handle id
    timers,      \* the retry timers that are pending: [id, delay, at]
    timerCount,  \* retry timers scheduled so far (the last id handed out)
    sent,        \* what the transport was handed: [h, data], in order
    calls,       \* the consumer callbacks the last task invoked and the
                 \* frames it handed to the transport, in order (after the
                 \* inbound frame, when the task handles one)
    phase,       \* "init" (rendered, effects not run), "mounted", "unmounted"
    accepted,    \* history: the messages passed to sendMessage, in call order
    reconnects,  \* history: number of reconnect() calls
    manual,      \* history: the last reconnect(): the handle that was current
                 \* when it ran (prev), the one it created (next; 0: none)
                 \* and the number of messages that were queued
    everOpened,  \* history: some handle has delivered an open event
    now,         \* the clock (ms since the hook was rendered); it advances
                 \* only in the timed specification
    backoff,     \* one call of retryWithBackoff (errorHandler.ts 149-173):
                 \* its arguments, its locals and what it has done so far
    token, refreshToken, isRefreshing, failedQueue,  \* ApiClient fields
                 \* (src/unnamed/part_001 384-390)
    requests,    \* the requests made through the client's axios instance
    refreshes    \* history: calls of refreshAccessToken so far

vars == <<maxRetries, retryDelay, shouldReconnect, state, lastMessage, error,
          webSocketRef, retriesRef, retryTimeoutRef, messageQueueRef, ws,
          timers, timerCount, sent, calls, phase, accepted, reconnects,
          manual, everOpened, now, backoff, token, refreshToken,
          isRefreshing, failedQueue, requests, refreshes>>

\* ------------------------------------------------------------ the "world"
\* The mutable part the hook's functions read and write, as one record, so
\* that a function calling another (reconnect -> connect) composes.
World ==
    [state |-> state, lastMessage |-> lastMessage, error |-> error,
     webSocketRef |-> webSocketRef, retriesRef |-> retriesRef,
     retryTimeoutRef |-> retryTimeoutRef, messageQueueRef |-> messageQueueRef,
     ws |-> ws, timers |-> timers, timerCount |-> timerCount, sent |-> sent,
     calls |-> <<>>, faults |-> 0, now |-> now]

\* The task's environment makes the k-th call of send in it throw (0: none).
Faulty(w, k) == [w EXCEPT !.faults = k]

Set(w) ==
    /\ state' = w.state
    /\ lastMessage' = w.lastMessage
    /\ error' = w.error
    /\ webSocketRef' = w.webSocketRef
    /\ retriesRef' = w.retriesRef
    /\ retryTimeoutRef' = w.retryTimeoutRef
    /\ messageQueueRef' = w.messageQueueRef
    /\ ws' = w.ws
    /\ timers' = w.timers
    /\ timerCount' = w.timerCount
    /\ sent' = w.sent
    /\ calls' = w.calls

\* A task invokes a consumer callback (onConnect, onDisconnect, onMessage,
\* onError with the message of its Error) or hands a frame to the transport.
Call(w, name) == [w EXCEPT !.calls = Append(@, name)]
Called(name) == \E i \in 1..Len(calls) : calls[i] = name

\* The last thing the code did was a call that threw: the exception is
\* propagating.  A catch block appends what it does; after a task, a
\* trailing "throw" is an exception that reached the event loop.
Threw(w) == Len(w.calls) > 0 /\ w.calls[Len(w.calls)] = "throw"

RECURSIVE Pow(_, _)
\* Math.pow(base, e) for a natural exponent.
Pow(base, e) == IF e = 0 THEN 1 ELSE base * Pow(base, e - 1)

\* JSON.stringify of an outbound message {action, timestamp}.
Stringify(m) == "{\"action\":\"" \o m.action \o "\",\"timestamp\":" \o ToString(m.ts) \o "}"

\* JSON.parse of an inbound frame: a value, or a SyntaxError.
Parse(frame) ==
    IF frame = "{\"event\":\"alarm.created\"}"
    THEN [ok |-> TRUE, val |-> <<"alarm.created">>]
    ELSE [ok |-> FALSE, val |-> <<>>]

\* ------------------------------------------------------------ the transport
\* WebSocket.close(): CONNECTING or OPEN becomes CLOSING, the close event
\* follows in a later task; a no-op on CLOSING and CLOSED.
WsClose(w, h) ==
    IF w.ws[h].readyState \in {"CONNECTING", "OPEN"}
    THEN [w EXCEPT !.ws[h].readyState = "CLOSING"]
    ELSE w

\* ws.send(JSON.stringify(message)) on an OPEN socket: the frame is handed
\* to the transport, or the expression throws.
WsSend(w, h, data) ==
    IF w.faults = 1
    THEN Call([w EXCEPT !.faults = 0], "throw")
    ELSE Call([w EXCEPT !.sent = Append(@, [h |-> h, data |-> data]),
                        !.faults = IF @ > 0 THEN @ - 1 ELSE 0], "send")

\* A WebSocket as connect() leaves it at time t: connecting, the four
\* listeners attached, its connection timeout pending until `deadline`.
\* timedOut: that timeout fired and closed it, and its close event is due.
NewSocket(t) == [readyState |-> "CONNECTING", listeners |-> TRUE,
                 connectionTimeout |-> TRUE, established |-> FALSE,
                 deadline |-> t + ConnectTimeoutMs, timedOut |-> FALSE]

\* -------------------------------------------------------- the hook's code
\* The JavaScript value undefined, as a message.
Undefined == [action |-> "undefined", ts |-> 0]

RECURSIVE Drain(_, _)
\* handleOpen's while loop (123-128); a send that throws ends it, the
\* message it had shifted gone and the rest still queued.
Drain(w, h) ==
    IF Len(w.messageQueueRef) = 0 THEN w
    ELSE LET msg == Head(w.messageQueueRef)
             w1 == [w EXCEPT !.messageQueueRef = Tail(@)]
             w2 == IF msg # Undefined /\ w1.ws[h].readyState = "OPEN"
                   THEN WsSend(w1, h, Stringify(msg)) ELSE w1
         IN IF Threw(w2) THEN w2 ELSE Drain(w2, h)

\* handleOpen (115-131); nothing in it catches what the loop throws.
handleOpen(w, h) ==
    LET w1 == [w EXCEPT !.ws[h].connectionTimeout = FALSE,
                        !.state = "OPEN",
                        !.retriesRef = 0,
                        !.error = "null"]
        w2 == Drain(w1, h)
    IN IF Threw(w2) THEN w2 ELSE Call(w2, "onConnect")

\* Mutant of handleMessage: a frame that does not parse is an error.
handleMessageStrict(w, h, frame) ==
    LET data == Parse(frame)
    IN IF data.ok
       THEN Call([w EXCEPT !.lastMessage = data.val], "onMessage")
       ELSE Call([w EXCEPT !.error = "parse failed"], "onError: parse failed")

\* handleMessage (133-141); the catch block only logs.
handleMessage(w, h, frame) ==
    LET data == Parse(frame)
    IN IF data.ok
       THEN Call([w EXCEPT !.lastMessage = data.val], "onMessage")
       ELSE Call(w, "console.error: parse")

\* Mutant of handleError: the error event counts as a retry of its own.
handleErrorCounting(w, h) ==
    Call([w EXCEPT !.ws[h].connectionTimeout = FALSE,
                   !.error = "connection failed",
                   !.retriesRef = IF @ < maxRetries THEN @ + 1 ELSE @],
         "onError: connection failed")

handleError(w, h) ==
    Call([w EXCEPT !.ws[h].connectionTimeout = FALSE,
                   !.error = "connection failed"], "onError: connection failed")

\* Mutant of ShouldRetry: the comparison admits one retry too many.
ShouldRetryInclusive(retries) == shouldReconnect /\ retries <= maxRetries

\* Mutant of ShouldRetry: the shouldReconnect option is not consulted.
ShouldRetryAlways(retries) == retries < maxRetries

\* The condition of the retry branch (163).
ShouldRetry(retries) == shouldReconnect /\ retries < maxRetries

\* Mutant of BackoffDelay: the exponent is not shifted down by one.
BackoffDelayUnshifted(retries) == retryDelay * Pow(2, retries)

\* Mutant of BackoffDelay: the delay grows linearly.
BackoffDelayLinear(retries) == retryDelay * retries

\* Mutant of BackoffDelay: the exponent counts every retry of the run, not
\* those since the counter was last reset.
BackoffDelayNeverReset(retries) == retryDelay * Pow(2, timerCount)

\* Mutant of BackoffDelay: every retry waits the base delay.
BackoffDelayConstant(retries) == retryDelay

\* The backoff delay (165), from the counter after its increment.
BackoffDelay(retries) == retryDelay * Pow(2, retries - 1)

handleClose(w, h) ==
    LET w1 == Call([w EXCEPT !.ws[h].connectionTimeout = FALSE,
                             !.state = "CLOSED"], "onDisconnect")
        w2 == [w1 EXCEPT !.ws[h].listeners = FALSE]
    IN IF ShouldRetry(w2.retriesRef)
       THEN LET n == w2.retriesRef + 1
                delay == BackoffDelay(n)
                id == w2.timerCount + 1
            IN [w2 EXCEPT !.retriesRef = n,
                          !.timerCount = id,
                          !.timers = @ \cup {[id |-> id, delay |-> delay,
                                               at |-> w2.now + delay]},
                          !.retryTimeoutRef = id]
       ELSE IF shouldReconnect /\ w2.retriesRef >= maxRetries
       THEN Call([w2 EXCEPT !.error = "demo mode"], "onError: demo mode")
       ELSE w2

\* readyState of webSocketRef.current, "NONE" when the ref is null.
CurrentState(w) ==
    IF w.webSocketRef = 0 THEN "NONE" ELSE w.ws[w.webSocketRef].readyState

\* Mutant of connect: a constructor that throws is counted as a failed
\* attempt.
connectCountingThrow(w, throws) ==
    IF CurrentState(w) = "OPEN" THEN w
    ELSE LET w1 == IF w.webSocketRef # 0 /\ CurrentState(w) # "CLOSED"
                   THEN WsClose(w, w.webSocketRef) ELSE w
             w2 == [w1 EXCEPT !.state = "CONNECTING"]
         IN IF throws
            THEN [Call([w2 EXCEPT !.error = "creation failed"],
                       "onError: creation failed")
                     EXCEPT !.state = "CLOSED",
                            !.retriesRef = IF @ < maxRetries THEN @ + 1 ELSE @]
            ELSE [w2 EXCEPT !.ws = Append(@, NewSocket(w2.now)),
                            !.webSocketRef = Len(w2.ws) + 1]

\* connect() (91-192).  throws: whether new WebSocket(url) throws.
connect(w, throws) ==
    IF CurrentState(w) = "OPEN" THEN w
    ELSE LET w1 == IF w.webSocketRef # 0 /\ CurrentState(w) # "CLOSED"
                   THEN WsClose(w, w.webSocketRef) ELSE w
             w2 == [w1 EXCEPT !.state = "CONNECTING"]
         IN IF throws
            THEN [Call([w2 EXCEPT !.error = "creation failed"],
                       "onError: creation failed")
                     EXCEPT !.state = "CLOSED"]
            ELSE [w2 EXCEPT !.ws = Append(@, NewSocket(w2.now)),
                            !.webSocketRef = Len(w2.ws) + 1]

\* connect() either returns early or has room for one more handle.
CanConnectWithin(w, throws, cap) ==
    CurrentState(w) = "OPEN" \/ throws \/ Len(w.ws) < cap

CanConnect(w, throws) == CanConnectWithin(w, throws, MaxHandles)

\* clearTimeout(retryTimeoutRef.current), guarded by the ref being set.
ClearRetryTimeout(w) ==
    IF w.retryTimeoutRef # 0
    THEN [w EXCEPT !.timers = {t \in @ : t.id # w.retryTimeoutRef}]
    ELSE w

\* Mutant of reconnectReset: a manual reconnect discards the queue.
reconnectResetClearingQueue(w) ==
    LET w1 == IF w.webSocketRef # 0 THEN WsClose(w, w.webSocketRef) ELSE w
        w2 == [w1 EXCEPT !.retriesRef = 0, !.messageQueueRef = <<>>]
        w3 == ClearRetryTimeout(w2)
    IN [w3 EXCEPT !.error = "null"]

\* reconnect() up to its call of connectRef.current (216-226).
reconnectReset(w) ==
    LET w1 == IF w.webSocketRef # 0 THEN WsClose(w, w.webSocketRef) ELSE w
        w2 == [w1 EXCEPT !.retriesRef = 0]
        w3 == ClearRetryTimeout(w2)
    IN [w3 EXCEPT !.error = "null"]

reconnect(w, throws) == connect(reconnectReset(w), throws)

\* Mutant of sendMessage: a message queued while not open goes to the front.
sendMessagePrepending(w, message) ==
    IF CurrentState(w) = "OPEN"
    THEN LET w1 == WsSend(w, w.webSocketRef, Stringify(message))
         IN IF Threw(w1)
            THEN Call([w1 EXCEPT !.error = "send failed"],
                      "onError: send failed")
            ELSE w1
    ELSE [w EXCEPT !.messageQueueRef = <<message>> \o @]

\* Mutant of sendMessage: a message sent while not open is queued, and also
\* reported as an error.
sendMessageRejecting(w, message) ==
    IF CurrentState(w) = "OPEN"
    THEN LET w1 == WsSend(w, w.webSocketRef, Stringify(message))
         IN IF Threw(w1)
            THEN Call([w1 EXCEPT !.error = "send failed"],
                      "onError: send failed")
            ELSE w1
    ELSE Call([w EXCEPT !.messageQueueRef = Append(@, message),
                        !.error = "not connected"], "onError: not connected")

\* Mutant of sendMessage: a message whose send failed is queued for later.
sendMessageRequeueing(w, message) ==
    IF CurrentState(w) = "OPEN"
    THEN LET w1 == WsSend(w, w.webSocketRef, Stringify(message))
         IN IF Threw(w1)
            THEN Call([w1 EXCEPT !.error = "send failed",
                                 !.messageQueueRef = Append(@, message)],
                      "onError: send failed")
            ELSE w1
    ELSE [w EXCEPT !.messageQueueRef = Append(@, message)]

\* sendMessage (197-211): the send, its catch block (201-205), the queue.
sendMessage(w, message) ==
    IF CurrentState(w) = "OPEN"
    THEN LET w1 == WsSend(w, w.webSocketRef, Stringify(message))
         IN IF Threw(w1)
            THEN Call([w1 EXCEPT !.error = "send failed"],
                      "onError: send failed")
            ELSE w1
    ELSE [w EXCEPT !.messageQueueRef = Append(@, message)]

\* Mutant of cleanup: the close it requests is reported as a state.
cleanupReporting(w) ==
    LET w1 == ClearRetryTimeout(w)
    IN IF w1.webSocketRef # 0
       THEN [WsClose(w1, w1.webSocketRef) EXCEPT !.state = "CLOSING"]
       ELSE w1

\* The unmount cleanup (247-255).
cleanup(w) ==
    LET w1 == ClearRetryTimeout(w)
    IN IF w1.webSocketRef # 0 THEN WsClose(w1, w1.webSocketRef) ELSE w1

\* The isConnected output (261).
isConnected == state = "OPEN"

\* ------------------------------------------ errorHandler.ts: the values
\* A JavaScript value as fn may return or throw it: its class, and the
\* fields isRetryable() reads.  A message is its sequence of characters.
Value(class, statusCode, retryable, message) ==
    [class |-> class, statusCode |-> statusCode, isRetryable |-> retryable,
     message |-> message]

JsUndefined == Value("undefined", 0, FALSE, <<>>)

NetworkError == <<"N", "e", "t", "w", "o", "r", "k", " ", "E", "r", "r", "o", "r">>
TimedOut == <<"t", "i", "m", "e", "d", " ", "o", "u", "t">>

\* What fn resolves with.
Resolved == {Value("object", 0, FALSE, <<"d", "a", "t", "a">>)}

\* What fn rejects with: ApiErrors of a retryable and of another status,
\* AppErrors flagged either way, plain Errors whose message does and does
\* not contain 'Network', and a thrown string that does.
Rejected ==
    {Value("ApiError", 503, FALSE, TimedOut),
     Value("ApiError", 404, FALSE, TimedOut),
     Value("AppError", 0, TRUE, TimedOut),
     Value("AppError", 0, FALSE, NetworkError),
     Value("Error", 0, FALSE, NetworkError),
     Value("Error", 0, FALSE, TimedOut),
     Value("string", 0, FALSE, NetworkError)}

\* error instanceof Error (ApiError and AppError extend Error).
InstanceOfError(v) == v.class \in {"Error", "ApiError", "AppError"}

\* String.prototype.includes.
Includes(s, sub) ==
    \E k \in 0..(Len(s) - Len(sub)) : SubSeq(s, k + 1, k + Len(sub)) = sub

retryableCodes == {408, 429, 500, 502, 503, 504}

\* isRetryable (74-92).
isRetryable(v) ==
    IF v.class = "ApiError" THEN v.statusCode \in retryableCodes
    ELSE IF v.class = "AppError" THEN v.isRetryable
    ELSE InstanceOfError(v)
         /\ Includes(v.message, <<"N", "e", "t", "w", "o", "r", "k">>)

\* retryWithBackoff before it is called.
NotCalled ==
    [pc |-> "idle", maxRetries |-> 0, delay |-> 0, i |-> 0,
     lastError |-> JsUndefined, invoked |-> 0, outcomes |-> <<>>,
     waits |-> <<>>, settled |-> JsUndefined]

\* ----------------------------------------------- ApiClient: the requests
Requests == 1..MaxRequests

\* A request config before it is dispatched: no _retry flag, no
\* Authorization header (0), never retried.
NewRequest ==
    [status |-> "new", _retry |-> FALSE, Authorization |-> 0, retried |-> 0,
     reason |-> "none"]

\* The client as its constructor leaves it (384-390); a token is 0 (null)
\* or the number that tells it from the tokens issued before it.
InitApiClient ==
    /\ token = 0
    /\ refreshToken = "null"
    /\ isRefreshing = FALSE
    /\ failedQueue = <<>>
    /\ requests = [r \in Requests |-> NewRequest]
    /\ refreshes = 0

\* The state outside the hook while only the hook runs.
InitElsewhere ==
    /\ backoff = NotCalled
    /\ InitApiClient

\* ------------------------------------------------------------------ Init
\* The hook as its first render leaves it (68-76).
InitHook ==
    /\ state = "CLOSED"
    /\ lastMessage = <<>>
    /\ error = "null"
    /\ webSocketRef = 0
    /\ retriesRef = 0
    /\ retryTimeoutRef = 0
    /\ messageQueueRef = <<>>
    /\ ws = <<>>
    /\ timers = {}
    /\ timerCount = 0
    /\ sent = <<>>
    /\ calls = <<>>
    /\ phase = "init"
    /\ accepted = <<>>
    /\ reconnects = 0
    /\ manual = [prev |-> 0, next |-> 0, queued |-> 0]
    /\ everOpened = FALSE
    /\ now = 0

Init ==
    /\ maxRetries \in 0..MaxRetriesOpt
    /\ retryDelay \in RetryDelays
    /\ shouldReconnect \in BOOLEAN
    /\ InitHook
    /\ InitElsewhere

Options == <<maxRetries, retryDelay, shouldReconnect>>

\* The state outside the hook: the retryWithBackoff call and the ApiClient.
Elsewhere ==
    <<backoff, token, refreshToken, isRefreshing, failedQueue, requests,
      refreshes>>

\* What a task of the hook leaves alone: the options, the clock and the
\* state outside the hook.
Fixed == <<Options, now, Elsewhere>>

\* --------------------------------------------------------------- actions
\* The mount effect (243-246): connect().
Mount ==
    /\ phase = "init"
    /\ \E throws \in BOOLEAN :
          Set(connect(World, throws))
    /\ phase' = "mounted"
    /\ UNCHANGED <<Fixed, accepted, reconnects, manual, everOpened>>

\* The component unmounts: the effect's cleanup runs.
Unmount ==
    /\ phase = "mounted"
    /\ Set(cleanup(World))
    /\ phase' = "unmounted"
    /\ UNCHANGED <<Fixed, accepted, reconnects, manual, everOpened>>

\* The consumer calls sendMessage with a fresh {action, timestamp} object;
\* Faults: which sends the environment may make throw.
SendMessageWith(Faults) ==
    /\ phase \in {"init", "mounted"}
    /\ Len(accepted) < MaxMsgs
    /\ \E action \in {"acknowledge"}, k \in Faults :
          LET message == [action |-> action, ts |-> Len(accepted) + 1]
          IN /\ k = 1 => CurrentState(World) = "OPEN"
             /\ Set(sendMessage(Faulty(World, k), message))
             /\ accepted' = Append(accepted, message)
    /\ UNCHANGED <<Fixed, phase, reconnects, manual, everOpened>>

SendMessage == SendMessageWith({0})

\* The consumer calls reconnect(), for at most `budget` calls in a run.
ReconnectWithin(budget) ==
    /\ phase = "mounted"
    /\ reconnects < budget
    /\ \E throws \in BOOLEAN :
          /\ CanConnect(reconnectReset(World), throws)
          /\ LET w == reconnect(World, throws)
             IN /\ Set(w)
                /\ manual' = [prev |-> webSocketRef,
                              next |-> IF throws THEN 0 ELSE w.webSocketRef,
                              queued |-> Len(messageQueueRef)]
    /\ reconnects' = reconnects + 1
    /\ UNCHANGED <<Fixed, phase, accepted, everOpened>>

Reconnect == ReconnectWithin(MaxReconnects)

\* One of the retry timers T fires (168-170): connectRef.current?.().
RetryTimerOf(T, cap) ==
    \E t \in T, throws \in BOOLEAN :
       LET w0 == [World EXCEPT !.timers = @ \ {t}]
       IN /\ CanConnectWithin(w0, throws, cap)
          /\ Set(connect(w0, throws))
          /\ UNCHANGED <<Fixed, phase, accepted, reconnects, manual,
                         everOpened>>

RetryTimer == RetryTimerOf(timers, MaxHandles)

\* Mutant of connectionTimeoutCallback: it closes whatever handle is
\* current when it runs.
connectionTimeoutCallbackOnCurrent(w, h) ==
    IF CurrentState(w) = "CONNECTING"
    THEN [WsClose(w, w.webSocketRef) EXCEPT !.ws[w.webSocketRef].timedOut = TRUE]
    ELSE w

\* Mutant of connectionTimeoutCallback: it closes nothing.
connectionTimeoutCallbackIdle(w, h) == w

\* The callback of handle h's connection timeout (108-113): h is the ws of
\* the connect() call that set the timer.
connectionTimeoutCallback(w, h) ==
    IF w.ws[h].readyState = "CONNECTING"
    THEN [WsClose(w, h) EXCEPT !.ws[h].timedOut = TRUE]
    ELSE w

\* The connection timeout of one of the handles H fires.
ConnectionTimeoutOf(H) ==
    \E h \in H :
       /\ ws[h].connectionTimeout
       /\ LET w0 == [World EXCEPT !.ws[h].connectionTimeout = FALSE]
          IN Set(connectionTimeoutCallback(w0, h))
       /\ UNCHANGED <<Fixed, phase, accepted, reconnects, manual,
                      everOpened>>

ConnectionTimeout == ConnectionTimeoutOf(1..Len(ws))

\* The transport establishes the connection of h: readyState OPEN, open event.
TransportOpenWith(Faults) ==
    \E h \in 1..Len(ws), k \in Faults :
       /\ ws[h].readyState = "CONNECTING"
       /\ k <= Len(messageQueueRef)
       /\ LET w0 == [Faulty(World, k) EXCEPT !.ws[h].readyState = "OPEN",
                                             !.ws[h].established = TRUE]
              w == IF w0.ws[h].listeners THEN handleOpen(w0, h) ELSE w0
          IN Set(w)
       /\ everOpened' = TRUE
       /\ UNCHANGED <<Fixed, phase, accepted, reconnects, manual>>

TransportOpen == TransportOpenWith({0})

\* A frame arrives on an established connection (also while CLOSING); the
\* task's record starts with the frame.
TransportMessage ==
    \E h \in 1..Len(ws), frame \in Frames :
       /\ ws[h].established
       /\ LET w0 == Call(World, "message: " \o frame)
              w == IF ws[h].listeners THEN handleMessage(w0, h, frame) ELSE w0
          IN Set(w)
       /\ UNCHANGED <<Fixed, phase, accepted, reconnects, manual,
                      everOpened>>

\* The connection of h ends (failed attempt, remote close, or the close
\* handshake after close()).  One task: readyState becomes CLOSED, an error
\* event is fired first when the connection failed, then the close event.
\* A connection that was never established can only have failed.
TransportCloseOf(H) ==
    \E h \in H, failed \in BOOLEAN :
       /\ ws[h].readyState # "CLOSED"
       /\ ~ws[h].established => failed
       /\ LET w0 == [World EXCEPT !.ws[h].readyState = "CLOSED",
                                  !.ws[h].established = FALSE,
                                  !.ws[h].timedOut = FALSE]
              w1 == IF failed /\ w0.ws[h].listeners THEN handleError(w0, h)
                    ELSE w0
              w == IF w1.ws[h].listeners THEN handleClose(w1, h) ELSE w1
          IN Set(w)
       /\ UNCHANGED <<Fixed, phase, accepted, reconnects, manual,
                      everOpened>>

TransportClose == TransportCloseOf(1..Len(ws))

\* The connection lifecycle: everything but inbound frames, which touch
\* nothing but lastMessage and onMessage.
Next ==
    \/ Mount
    \/ Unmount
    \/ SendMessage
    \/ Reconnect
    \/ RetryTimer
    \/ ConnectionTimeout
    \/ TransportOpen
    \/ TransportClose

Spec == Init /\ [][Next]_vars

\* The lifecycle together with inbound frames; the consumer sends nothing.
NextFrames ==
    \/ Mount
    \/ Unmount
    \/ Reconnect
    \/ RetryTimer
    \/ ConnectionTimeout
    \/ TransportOpen
    \/ TransportMessage
    \/ TransportClose

SpecFrames == Init /\ [][NextFrames]_vars

\* The lifecycle of a mounted component in an environment where a send may
\* throw.
SendMessageFaulty == SendMessageWith({0, 1})
TransportOpenFaulty == TransportOpenWith(0..MaxMsgs)

NextFaulty ==
    \/ Mount
    \/ SendMessageFaulty
    \/ Reconnect
    \/ RetryTimer
    \/ ConnectionTimeout
    \/ TransportOpenFaulty
    \/ TransportClose

SpecFaulty == Init /\ [][NextFaulty]_vars

\* The lifecycle on the clock, in AlarmList's configuration: a timer fires
\* when it is due, the clock advances to the next pending timer when none is
\* due and no close event is outstanding (the close event of a handle that
\* was closed follows at once).  The server either accepts a connection or
\* does not answer: an attempt ends by opening or by its timeout.
InitTimed ==
    /\ maxRetries \in 0..AlarmMaxRetries
    /\ retryDelay \in RetryDelays
    /\ shouldReconnect \in BOOLEAN
    /\ InitHook
    /\ InitElsewhere

\* The instants at which a pending timer is due.
Deadlines ==
    {t.at : t \in timers}
       \cup {ws[h].deadline : h \in {i \in 1..Len(ws) : ws[i].connectionTimeout}}

Tick ==
    /\ Deadlines # {}
    /\ \A d \in Deadlines : d > now
    /\ \A h \in 1..Len(ws) : ws[h].readyState # "CLOSING"
    /\ now' = CHOOSE d \in Deadlines : \A e \in Deadlines : d <= e
    /\ UNCHANGED <<Options, state, lastMessage, error, webSocketRef,
                   retriesRef, retryTimeoutRef, messageQueueRef, ws, timers,
                   timerCount, sent, calls, phase, accepted, reconnects,
                   manual, everOpened, Elsewhere>>

RetryTimerDue ==
    RetryTimerOf({t \in timers : t.at <= now}, AlarmMaxRetries + 1)

ConnectionTimeoutDue ==
    ConnectionTimeoutOf({h \in 1..Len(ws) : ws[h].deadline <= now})

TransportCloseTimed ==
    TransportCloseOf({h \in 1..Len(ws) :
                         ws[h].established \/ ws[h].readyState = "CLOSING"})

NextTimed ==
    \/ Mount
    \/ Tick
    \/ RetryTimerDue
    \/ ConnectionTimeoutDue
    \/ TransportOpen
    \/ TransportCloseTimed

SpecTimed == InitTimed /\ [][NextTimed]_vars

\* The lifecycle under fairness: a connection timeout that is pending fires
\* (it is a timer), and the transport delivers the close event of a handle
\* that close() was called on.  Nothing obliges the transport to answer a
\* connection attempt, the consumer to act, or a retry timer to find room.
Fairness ==
    /\ WF_vars(ConnectionTimeout)
    /\ WF_vars(TransportCloseOf({h \in 1..Len(ws) :
                                    ws[h].readyState = "CLOSING"}))

\* What bears on a connection attempt: the consumer sends nothing and stays
\* mounted.
NextLive ==
    \/ Mount
    \/ Reconnect
    \/ RetryTimer
    \/ ConnectionTimeout
    \/ TransportOpen
    \/ TransportClose

SpecLive == Init /\ [][NextLive]_vars /\ Fairness

\* Manual reconnects alone: the consumer sends nothing and stays mounted,
\* and may call reconnect() once more than in Spec.
ReconnectAgain == ReconnectWithin(MaxReconnects + 1)

NextManual ==
    \/ Mount
    \/ ReconnectAgain
    \/ RetryTimer
    \/ ConnectionTimeout
    \/ TransportOpen
    \/ TransportClose

SpecManual == Init /\ [][NextManual]_vars

\* ------------------------------------------------- reading a step's task
\* The step delivers handle h's close event (with its error event, if any).
ClosedNow(h) == ws[h].readyState # "CLOSED" /\ ws'[h].readyState = "CLOSED"

\* The step delivers handle h's open event.
OpenedNow(h) == ws[h].readyState = "CONNECTING" /\ ws'[h].readyState = "OPEN"

\* The step is a call of reconnect().
ReconnectNow == reconnects' = reconnects + 1

\* The step is a retry timer firing (the other steps that remove a timer are
\* reconnect() and the unmount cleanup).
RetryTimerNow ==
    /\ \E t \in timers : t \notin timers'
    /\ reconnects' = reconnects
    /\ phase' = phase

\* The step schedules a retry timer with this delay.
ScheduledNow(delay) ==
    /\ timerCount' = timerCount + 1
    /\ timers' = timers \cup {[id |-> timerCount', delay |-> delay,
                                at |-> now + delay]}

\* The step invokes onError.
OnErrorCalled ==
    \/ Called("onError: connection failed")
    \/ Called("onError: demo mode")
    \/ Called("onError: creation failed")
    \/ Called("onError: send failed")
    \/ Called("onError: parse failed")

\* The step is a call of sendMessage.
SendNow == Len(accepted') = Len(accepted) + 1

\* Handles whose listeners are attached.
Listening == {h \in 1..Len(ws) : ws[h].listeners}

\* ------------------------------------------------------------------ C1
\* No handle has opened and reconnect() has not been called.
OnlyFailures == shouldReconnect /\ reconnects = 0 /\ ~everOpened

\* C1: with shouldReconnect and maxRetries = N, as long as every attempt ends
\* in a close without opening and reconnect() is not called, the close of
\* the k-th attempt (k <= N) schedules the k-th retry, with delay
\* retryDelay * 2^(k-1), and the close of attempt N+1 schedules nothing,
\* leaves no timer pending and reports the retries-exhausted error.
C1_RetryLadder ==
    [][\A h \in 1..Len(ws) :
          (OnlyFailures /\ ClosedNow(h)) =>
             IF timerCount < maxRetries
             THEN ScheduledNow(retryDelay * Pow(2, timerCount))
             ELSE /\ timerCount = maxRetries
                  /\ timerCount' = timerCount
                  /\ timers' = {}
                  /\ error' = "demo mode"
                  /\ Called("onError: demo mode")']_vars

\* All MaxRetriesOpt retries were made and the last attempt has closed.
C1_Witness ==
    /\ OnlyFailures
    /\ maxRetries = MaxRetriesOpt
    /\ timerCount = maxRetries
    /\ timers = {}
    /\ error = "demo mode"
    /\ Called("onError: demo mode")

\* ------------------------------------------------------------------ C2
\* The frames handed to the transport, in order.
SentData == [i \in 1..Len(sent) |-> sent[i].data]

\* The queue and the accepted messages, as the frames they serialize to.
QueuedData == [i \in 1..Len(messageQueueRef) |-> Stringify(messageQueueRef[i])]
AcceptedData == [i \in 1..Len(accepted) |-> Stringify(accepted[i])]

C3_StaleEventsIgnored ==
    [][\A h \in 1..Len(ws) :
          (h = manual.prev /\ manual.next # 0
              /\ (ClosedNow(h) \/ OpenedNow(h))) =>
             /\ state' = state
             /\ error' = error
             /\ retriesRef' = retriesRef
             /\ timerCount' = timerCount
             /\ ~Called("onDisconnect")'
             /\ ~OnErrorCalled']_vars

\* ------------------------------------------------------------------ C4
\* C4: when reconnect() returns (its WebSocket constructor not having
\* thrown), the retry counter is 0, the error is cleared, no retry timer is
\* pending, and a new handle is current and CONNECTING, as is the state.
C4_ReconnectStartsAfresh ==
    [][(ReconnectNow /\ manual'.next # 0) =>
          /\ retriesRef' = 0
          /\ error' = "null"
          /\ timers' = {}
          /\ Len(ws') = Len(ws) + 1
          /\ webSocketRef' = Len(ws')
          /\ CurrentState(World)' = "CONNECTING"
          /\ state' = "CONNECTING"]_vars

\* ------------------------------------------------------------------ C5
\* C5: when the attempt that reconnect() started ends in a close (and the
\* policy allows a retry at all), that close schedules a retry with delay
\* retryDelay: the ladder restarts from attempt 1.
C5_LadderRestarts ==
    [][\A h \in 1..Len(ws) :
          (h = manual.next /\ ClosedNow(h) /\ shouldReconnect /\ maxRetries > 0)
             => ScheduledNow(retryDelay)]_vars

\* ------------------------------------------------------------------ C6
\* C6: after the unmount cleanup no handle is created, no retry timer is
\* scheduled and none fires.
C6_NothingAfterUnmount ==
    [][phase = "unmounted" =>
          /\ Len(ws') = Len(ws)
          /\ timerCount' = timerCount
          /\ timers' = timers]_vars

\* ------------------------------------------------------------------ C7
\* C7: in every reachable state 0 <= retriesRef <= maxRetries.
C7_RetryCounterBounded == retriesRef \in 0..maxRetries

\* The counter is at its ceiling after a manual reconnect had reset it.
C7_Witness ==
    /\ maxRetries = MaxRetriesOpt
    /\ retriesRef = maxRetries
    /\ reconnects > 0
    /\ error = "demo mode"

\* ------------------------------------------------------------------ C8
\* C8: in every reachable state at most one retry timer is pending.
C8_OneRetryTimer == Cardinality(timers) <= 1

\* ------------------------------------------------------------------ C9
\* C9: at any time at most one handle has the hook's listeners attached, and
\* a step that creates a handle leaves no earlier handle with listeners or
\* unclosed.
C9_OneListeningHandle ==
    /\ Cardinality(Listening) <= 1
    /\ \A h \in 1..Len(ws) - 1 :
          ~ws[h].listeners /\ ws[h].readyState = "CLOSED"

\* ----------------------------------------------------------------- C10
\* C10: a retry timer that fires while the current handle is CONNECTING or
\* OPEN finds connect() a no-op: no handle is created and the current one
\* keeps its readyState.
C10_ConnectIsIdempotent ==
    [][(RetryTimerNow /\ CurrentState(World) \in {"CONNECTING", "OPEN"}) =>
          /\ Len(ws') = Len(ws)
          /\ ws'[webSocketRef].readyState = ws[webSocketRef].readyState]_vars

\* ----------------------------------------------------------------- C11
\* C11: a call of sendMessage while the current handle is not OPEN (none
\* yet, CONNECTING, CLOSING, CLOSED, retries exhausted or not) throws
\* nothing and invokes no callback, appends exactly its message to the end
\* of the queue, hands nothing to the transport, and leaves state, error,
\* retry counter, timers and handles as they were.
C11_SendWhileNotOpenQueues ==
    [][(SendNow /\ CurrentState(World) # "OPEN") =>
          /\ calls' = <<>>
          /\ messageQueueRef' = Append(messageQueueRef, accepted'[Len(accepted')])
          /\ sent' = sent
          /\ error' = error
          /\ state' = state
          /\ retriesRef' = retriesRef
          /\ timers' = timers
          /\ timerCount' = timerCount
          /\ ws' = ws
          /\ webSocketRef' = webSocketRef]_vars

\* After the retries were exhausted, with nothing pending, sendMessage was
\* called again: MaxMsgs messages are queued and the exhausted error stands.
C11_Witness ==
    /\ phase = "mounted"
    /\ reconnects = 0
    /\ CurrentState(World) = "CLOSED"
    /\ error = "demo mode"
    /\ timers = {}
    /\ calls = <<>>
    /\ state = "CLOSED"
    /\ Len(messageQueueRef) = MaxMsgs

\* ----------------------------------------------------------------- C12
\* The frames the step hands to the transport.
NewlySent == {sent'[i].data : i \in Len(sent) + 1..Len(sent')}

\* C12: no step takes a message out of the queue without handing it to the
\* transport in that same step, and no frame is handed over twice: a queued
\* message stays queued until it is transmitted, exactly once.
C12_NoQueuedMessageLost ==
    [][/\ \A i \in 1..Len(messageQueueRef) :
             \/ \E j \in 1..Len(messageQueueRef') :
                   messageQueueRef'[j] = messageQueueRef[i]
             \/ Stringify(messageQueueRef[i]) \in NewlySent
       /\ \A i, j \in 1..Len(sent') :
             sent'[i].data = sent'[j].data => i = j]_vars

\* ----------------------------------------------------------------- C13
\* C13: the close handling runs once per handle.  A step raises the retry
\* counter or schedules a retry timer only when it delivers the close event
\* of exactly one handle whose listeners are attached, and then it raises
\* the counter by one and schedules one timer, with the backoff delay of the
\* counter, whether the handle was closed by its connection timeout, failed
\* with an error event, or was closed by the peer; the error event in that
\* step adds nothing.  The close detaches the listeners, and a closed handle
\* never changes again.
C13_CloseHandledOnce ==
    [][/\ (retriesRef' > retriesRef \/ timerCount' # timerCount) =>
             /\ Cardinality({h \in 1..Len(ws) :
                                ClosedNow(h) /\ ws[h].listeners}) = 1
             /\ retriesRef' = retriesRef + 1
             /\ ScheduledNow(retryDelay * Pow(2, retriesRef))
       /\ \A h \in 1..Len(ws) :
             /\ ClosedNow(h) => ~ws'[h].listeners
             /\ ws[h].readyState = "CLOSED" => ws'[h] = ws[h]]_vars

\* The first attempt ended with an error event and a close event in one
\* task: the counter is at 1 and one timer is pending.
C13_Witness ==
    /\ Len(ws) = 1
    /\ ws[1].readyState = "CLOSED"
    /\ calls = <<"onError: connection failed", "onDisconnect">>
    /\ retriesRef = 1
    /\ timerCount = 1
    /\ Cardinality(timers) = 1

\* ----------------------------------------------------------------- C14
\* C14: when the connection timeout has closed a handle that was still
\* CONNECTING, then by the time the close handler of that handle decides on
\* a retry a timeout error is the recorded error: the timeout's own task
\* recorded it, or the close task reports it through onError first.
C14_TimeoutErrorReported ==
    [][\A h \in 1..Len(ws) :
          (ws[h].timedOut /\ ws[h].listeners /\ ClosedNow(h)) =>
             \/ error = "connection timeout"
             \/ Len(calls') > 0 /\ calls'[1] = "onError: connection timeout"]_vars

\* ----------------------------------------------------------------- C15
\* C15: while the retries-exhausted error is the recorded error, a step that
\* is not a call of reconnect() creates no handle, fires no retry timer and
\* leaves the state CLOSED.
C15_ExhaustedIsTerminal ==
    [][(error = "demo mode" /\ ~ReconnectNow) =>
          /\ Len(ws') = Len(ws)
          /\ ~RetryTimerNow
          /\ state = "CLOSED"
          /\ state' = "CLOSED"]_vars

\* ----------------------------------------------------------------- C16
\* AlarmList's policy: 3 retries, 2000 ms base delay, reconnection on.
AlarmPolicy ==
    maxRetries = AlarmMaxRetries /\ retryDelay = 2000 /\ shouldReconnect

\* The step schedules a retry timer that is due at time t.
ScheduledFor(t) ==
    /\ timerCount' = timerCount + 1
    /\ \E x \in timers' :
          x.id = timerCount' /\ x.at = t /\ timers' = timers \cup {x}

\* Under AlarmList's policy, as long as no attempt has opened: attempt k
\* starts at starts[k] and its close event, forced by the connection
\* timeout, comes ConnectTimeoutMs later; the close of each of the first
\* three attempts schedules the retry that starts the next, and the close of
\* the fourth reports the retries-exhausted error, 3 retries having been
\* scheduled and none pending.
Timeline(starts) ==
    (AlarmPolicy /\ ~everOpened') =>
       /\ Len(ws') = Len(ws) + 1 => now' = starts[Len(ws')]
       /\ \A h \in 1..Len(ws) :
             ClosedNow(h) =>
                /\ now' = starts[h] + ConnectTimeoutMs
                /\ IF h <= AlarmMaxRetries
                   THEN ScheduledFor(starts[h + 1])
                   ELSE /\ error' = "demo mode"
                        /\ Called("onError: demo mode")'
                        /\ timerCount' = AlarmMaxRetries
                        /\ timers' = {}

\* C16 (as the code behaves): the attempts start at t = 0, 7000, 16000 and
\* 29000 and fail at t = 5000, 12000, 21000 and 34000; the retries are
\* scheduled for t = 7000, 16000 and 29000; retries-exhausted is reported
\* at t = 34000 after exactly 3 automatic retries.
C16_TimelineOfTheCode == [][Timeline(<<0, 7000, 16000, 29000>>)]_vars

\* C16 (as stated): the third retry is scheduled for t = 24000 and fails at
\* t = 29000, where retries-exhausted is reported.
C16_TimelineAsStated == [][Timeline(<<0, 7000, 16000, 24000>>)]_vars

\* The fourth attempt has timed out and the exhausted error was reported.
C16_Witness ==
    /\ AlarmPolicy
    /\ ~everOpened
    /\ Len(ws) = AlarmMaxRetries + 1
    /\ timerCount = AlarmMaxRetries
    /\ error = "demo mode"
    /\ now = 34000

\* ----------------------------------------------------------------- C17
\* C17: while the component is mounted, isConnected is true exactly when the
\* current handle is OPEN, that is, exactly when sendMessage would hand the
\* message to the transport instead of queueing it.
C17_IsConnectedMeansUsable ==
    phase = "mounted" => (isConnected <=> CurrentState(World) = "OPEN")

\* ----------------------------------------------------------------- C18
\* C18: when the open event of a listening handle has been handled, that
\* handle's connection timeout is cancelled, the state is OPEN, the retry
\* counter 0, the error cleared, the queue empty, every message that was
\* queued has been handed to the transport, in order, and onConnect was
\* invoked after the last of them.
C18_OpenHandled ==
    [][\A h \in 1..Len(ws) :
          (OpenedNow(h) /\ ws[h].listeners) =>
             /\ ~ws'[h].connectionTimeout
             /\ state' = "OPEN"
             /\ retriesRef' = 0
             /\ error' = "null"
             /\ messageQueueRef' = <<>>
             /\ sent' = sent \o [i \in 1..Len(messageQueueRef) |->
                                   [h |-> h, data |-> QueuedData[i]]]
             /\ calls' = [i \in 1..Len(messageQueueRef) + 1 |->
                            IF i <= Len(messageQueueRef) THEN "send"
                            ELSE "onConnect"]]_vars

\* ----------------------------------------------------------------- C19
\* The step delivers this inbound frame.
FrameNow(frame) == Len(calls') > 0 /\ calls'[1] = "message: " \o frame

\* C19: handling a frame that does not parse only logs: state, handles (none
\* closed, listeners still attached), retry counter, error, lastMessage,
\* timers and queue keep their values and neither onMessage nor onError is
\* invoked; and a frame that parses is delivered through lastMessage and
\* onMessage, a malformed one having come before or not.
C19_BadFrameIgnored ==
    [][/\ FrameNow("not json") =>
             /\ calls' = <<"message: not json", "console.error: parse">>
             /\ UNCHANGED <<state, lastMessage, error, webSocketRef,
                            retriesRef, retryTimeoutRef, messageQueueRef, ws,
                            timers, timerCount, sent>>
       /\ \A frame \in Frames \ {"not json"} :
             FrameNow(frame) =>
                /\ calls' = <<"message: " \o frame, "onMessage">>
                /\ lastMessage' = Parse(frame).val]_vars

\* A frame was delivered, then a malformed one arrived: the delivered
\* message stands, the connection is open and nothing was reported.
C19_Witness ==
    /\ calls = <<"message: not json", "console.error: parse">>
    /\ lastMessage = <<"alarm.created">>
    /\ state = "OPEN"
    /\ CurrentState(World) = "OPEN"
    /\ error = "null"

\* ----------------------------------------------------------------- C20
\* C20: when sendMessage is called with the current handle OPEN and the send
\* throws, sendMessage catches it: the failure becomes the recorded error
\* and is passed to onError, nothing propagates, the message is neither
\* queued nor counted as sent, and state, retry counter, timers and handles
\* are unchanged (no close, no reconnection).
C20_SendFailureReported ==
    [][(SendNow /\ CurrentState(World) = "OPEN" /\ Called("throw")') =>
          /\ calls' = <<"throw", "onError: send failed">>
          /\ error' = "send failed"
          /\ messageQueueRef' = messageQueueRef
          /\ sent' = sent
          /\ state' = state
          /\ retriesRef' = retriesRef
          /\ timers' = timers
          /\ timerCount' = timerCount
          /\ ws' = ws
          /\ webSocketRef' = webSocketRef]_vars

\* A send on the open connection has just failed and was reported.
C20_Witness ==
    /\ calls = <<"throw", "onError: send failed">>
    /\ error = "send failed"
    /\ state = "OPEN"
    /\ CurrentState(World) = "OPEN"
    /\ messageQueueRef = <<>>
    /\ sent = <<>>

\* ----------------------------------------------------------------- C21
\* C21: with shouldReconnect false, the close event of a listening handle
\* sets the state to CLOSED and does nothing more: the retry counter keeps
\* its value, no timer is scheduled and none removed, the retries-exhausted
\* error is not recorded, and after onDisconnect no callback is invoked
\* (onError runs only for the error event, before it).
C21_NoReconnectNoAction ==
    [][\A h \in 1..Len(ws) :
          (~shouldReconnect /\ ClosedNow(h) /\ ws[h].listeners) =>
             /\ state' = "CLOSED"
             /\ retriesRef' = retriesRef
             /\ timerCount' = timerCount
             /\ timers' = timers
             /\ error' # "demo mode"
             /\ calls' \in {<<"onDisconnect">>,
                            <<"onError: connection failed", "onDisconnect">>}
             /\ Len(ws') = Len(ws)]_vars

\* Reconnection is off and the only attempt has failed and closed.
C21_Witness ==
    /\ ~shouldReconnect
    /\ maxRetries > 0
    /\ Len(ws) = 1
    /\ ws[1].readyState = "CLOSED"
    /\ state = "CLOSED"
    /\ calls = <<"onError: connection failed", "onDisconnect">>
    /\ retriesRef = 0
    /\ timerCount = 0

\* ----------------------------------------------------------------- C22
\* C22: whenever a retry timer is scheduled, the step has raised the retry
\* counter by one, to c, and the timer's delay is retryDelay * 2^(c-1); so
\* a retry scheduled while the counter is 0 (as it is after an open event or
\* a reconnect()) waits exactly retryDelay.
C22_BackoffFromCounter ==
    [][timerCount' # timerCount =>
          /\ retriesRef' = retriesRef + 1
          /\ ScheduledNow(retryDelay * Pow(2, retriesRef' - 1))
          /\ retriesRef = 0 => ScheduledNow(retryDelay)]_vars

\* A retry had been made, the connection opened and closed again: the retry
\* now pending is not the first of the run and waits retryDelay.
C22_Witness ==
    /\ everOpened
    /\ reconnects = 0
    /\ timerCount > 1
    /\ retriesRef = 1
    /\ Called("onDisconnect")
    /\ \E t \in timers : t.id = timerCount /\ t.delay = retryDelay

TimeoutNow(h) ==
    /\ ws[h].connectionTimeout
    /\ ~ws'[h].connectionTimeout
    /\ ws[h].readyState \in {"CONNECTING", "CLOSING"}
    /\ ws'[h].readyState \in {"CONNECTING", "CLOSING"}
    /\ ws'[h].listeners

\* C25: a connection timeout that fires acts on its own handle only, and
\* only if that handle is CONNECTING, which it then closes; when the handle
\* was superseded (closed by connect() or reconnect(), its close event not
\* yet delivered) nothing happens.  Every other handle, the current handle
\* reference, the state, the retry counter, the error and the retry timers
\* keep their values and no callback is invoked.
C25_TimeoutActsOnOwnHandle ==
    [][\A h \in 1..Len(ws) :
          TimeoutNow(h) =>
             /\ ws'[h].readyState = "CLOSING"
             /\ ws[h].readyState = "CLOSING" => ~ws'[h].timedOut
             /\ Len(ws') = Len(ws)
             /\ \A g \in 1..Len(ws) : g # h => ws'[g] = ws[g]
             /\ UNCHANGED <<webSocketRef, state, retriesRef, error, timers,
                            timerCount, messageQueueRef, sent>>
             /\ calls' = <<>>]_vars

\* The timeout of a handle that reconnect() superseded has fired while the
\* newer handle was CONNECTING, and left it so, its own timeout pending.
C25_Witness ==
    /\ Len(ws) = 2
    /\ ws[1].readyState = "CLOSING"
    /\ ~ws[1].connectionTimeout
    /\ ~ws[1].timedOut
    /\ webSocketRef = 2
    /\ ws[2].readyState = "CONNECTING"
    /\ ws[2].connectionTimeout
    /\ state = "CONNECTING"
    /\ calls = <<>>

\* ----------------------------------------------------------------- C26
\* The attempts that have reached neither OPEN nor CLOSED: CONNECTING, or
\* closed by close() before they opened and waiting for the close event.
Unresolved ==
    {h \in 1..Len(ws) :
        \/ ws[h].readyState = "CONNECTING"
        \/ ws[h].readyState = "CLOSING" /\ ~ws[h].established}

\* C26: under fairness of the timers and of the close event after close(),
\* no attempt stays CONNECTING forever: whenever some attempt is unresolved,
\* a state follows in which every attempt has reached OPEN or CLOSED (an
\* attempt that has reached either is never unresolved again).
C26_NoAttemptConnectsForever == (Unresolved # {}) ~> (Unresolved = {})

\* Two attempts have been resolved: the first was closed after its timeout
\* had fired or it had failed, the second is open.
C26_Witness ==
    /\ Len(ws) = 2
    /\ reconnects = 0
    /\ ws[1].readyState = "CLOSED"
    /\ ws[2].readyState = "OPEN"
    /\ \A h \in 1..2 : ~ws[h].connectionTimeout

ThrewNow == Called("onError: creation failed")'

\* The creation error stands, the state is CLOSED and the current handle is
\* not a live one (connect() returns early on an OPEN handle and closes any
\* other before the constructor runs, 93-100): since the constructor threw,
\* no handle has been created.
CreationFailed ==
    /\ error = "creation failed"
    /\ state = "CLOSED"
    /\ CurrentState(World) \notin {"CONNECTING", "OPEN"}

\* A connect() whose constructor throws records the error, reports it once,
\* sets the state to CLOSED and does not run the close handler: it creates
\* no handle, schedules no retry and leaves the retry counter alone (or at
\* the 0 that reconnect() has just set).
ThrowHandled ==
    ThrewNow =>
       /\ calls' = <<"onError: creation failed">>
       /\ error' = "creation failed"
       /\ state' = "CLOSED"
       /\ Len(ws') = Len(ws)
       /\ timerCount' = timerCount
       /\ retriesRef' = IF ReconnectNow THEN 0 ELSE retriesRef

Hook ==
    <<Options, state, lastMessage, error, webSocketRef, retriesRef,
      retryTimeoutRef, messageQueueRef, ws, timers, timerCount, sent, calls,
      phase, accepted, reconnects, manual, everOpened, now>>

\* The hook, rendered with AlarmList's options and left alone.
HookIdle ==
    /\ maxRetries = AlarmMaxRetries
    /\ retryDelay \in RetryDelays
    /\ shouldReconnect = TRUE
    /\ InitHook

\* The delay argument (default 1000, line 152).
BackoffDelays == {1000}

\* The for loop's test (156): the next iteration calls fn (158), and the
\* loop's exit reaches `throw lastError!` (172).
LoopTest(b) ==
    IF b.i < b.maxRetries
    THEN [b EXCEPT !.pc = "call", !.invoked = @ + 1]
    ELSE [b EXCEPT !.pc = "thrown", !.settled = b.lastError]

\* The catch block (159-169) for the value e fn rejected with.
Caught(b, e) ==
    LET c == [b EXCEPT !.outcomes = Append(@, e),
                       !.lastError = IF InstanceOfError(e) THEN e
                                     ELSE Value("Error", 0, FALSE, e.message)]
    IN IF ~isRetryable(e) \/ c.i = c.maxRetries - 1
       THEN [c EXCEPT !.pc = "thrown", !.settled = e]
       ELSE [c EXCEPT !.pc = "wait",
                      !.waits = Append(@, c.delay * Pow(2, c.i))]

\* retryWithBackoff(fn, maxRetries, delay) is called (149-156).
RetryWithBackoff ==
    /\ backoff.pc = "idle"
    /\ \E m \in 0..MaxAttempts, d \in BackoffDelays :
          backoff' = LoopTest([backoff EXCEPT !.maxRetries = m, !.delay = d,
                                              !.i = 0])
    /\ UNCHANGED <<Hook, token, refreshToken, isRefreshing, failedQueue,
                   requests, refreshes>>

\* fn's promise resolves: `return await fn()` (158).
FnResolves ==
    /\ backoff.pc = "call"
    /\ \E v \in Resolved :
          backoff' = [backoff EXCEPT !.pc = "returned", !.settled = v,
                                     !.outcomes = Append(@, v)]
    /\ UNCHANGED <<Hook, token, refreshToken, isRefreshing, failedQueue,
                   requests, refreshes>>

\* fn's promise rejects (159-169).
FnRejects ==
    /\ backoff.pc = "call"
    /\ \E e \in Rejected : backoff' = Caught(backoff, e)
    /\ UNCHANGED <<Hook, token, refreshToken, isRefreshing, failedQueue,
                   requests, refreshes>>

\* The backoff timer fires (168): i++ and the loop's test.
BackoffElapsed ==
    /\ backoff.pc = "wait"
    /\ backoff' = LoopTest([backoff EXCEPT !.i = @ + 1])
    /\ UNCHANGED <<Hook, token, refreshToken, isRefreshing, failedQueue,
                   requests, refreshes>>

InitBackoff ==
    /\ HookIdle
    /\ InitElsewhere

NextBackoff ==
    \/ RetryWithBackoff
    \/ FnResolves
    \/ FnRejects
    \/ BackoffElapsed

SpecBackoff == InitBackoff /\ [][NextBackoff]_vars

\* Claim C24: retryWithBackoff invokes fn at most maxRetries times; what it
\* returns is the result of the first invocation that succeeded; it
\* rethrows without waiting when a failure is not retryable or is the
\* maxRetries-th; after the i-th (0-indexed) retryable failure it waits
\* delay * 2^i before the next invocation; and for every maxRetries >= 0
\* what it ends with is a value fn returned or the error its last
\* invocation of fn raised.
C24_RetryWithBackoff ==
    LET b == backoff IN
    /\ b.invoked <= b.maxRetries
    /\ Len(b.outcomes) = IF b.pc = "call" THEN b.invoked - 1 ELSE b.invoked
    /\ \A k \in 1..Len(b.waits) : b.waits[k] = b.delay * Pow(2, k - 1)
    /\ Len(b.waits) = IF b.pc \in {"wait", "idle"} THEN b.invoked
                      ELSE IF b.invoked = 0 THEN 0 ELSE b.invoked - 1
    /\ \A k \in 1..Len(b.waits) : isRetryable(b.outcomes[k])
    /\ b.pc = "returned" =>
          /\ b.settled \in Resolved
          /\ b.settled = b.outcomes[b.invoked]
          /\ \A k \in 1..(b.invoked - 1) : b.outcomes[k] \in Rejected
    /\ b.pc = "thrown" =>
          /\ b.invoked >= 1
          /\ b.settled = b.outcomes[b.invoked]
          /\ b.settled \in Rejected
          /\ ~isRetryable(b.settled) \/ b.invoked = b.maxRetries

\* ------------------------------------------------------------ ApiClient
\* The request interceptor (410-416) and the dispatch of request c: the
\* Authorization header is the current token, when there is one.
Dispatch(c, tok) ==
    [c EXCEPT !.status = "sent",
              !.Authorization = IF tok # 0 THEN tok ELSE @]

\* The entries of failedQueue as a set.
Queued == {failedQueue[k] : k \in 1..Len(failedQueue)}

\* The requests whose handler awaits refreshAccessToken() (449).
Refreshing == {r \in Requests : requests[r].status = "refreshing"}

\* setToken (518-520).
setToken ==
    /\ token # 1
    /\ token' = 1
    /\ UNCHANGED <<Hook, backoff, refreshToken, isRefreshing, failedQueue,
                   requests, refreshes>>

\* setRefreshToken (525-527).
setRefreshToken ==
    /\ refreshToken = "null"
    /\ refreshToken' = "test-refresh-token"
    /\ UNCHANGED <<Hook, backoff, token, isRefreshing, failedQueue, requests,
                   refreshes>>

\* clearToken (532-535).
clearToken ==
    /\ token # 0 \/ refreshToken # "null"
    /\ token' = 0
    /\ refreshToken' = "null"
    /\ UNCHANGED <<Hook, backoff, isRefreshing, failedQueue, requests,
                   refreshes>>

\* A request is made through the axios instance (567-624).
Request ==
    \E r \in Requests :
       /\ requests[r].status = "new"
       /\ requests' = [requests EXCEPT ![r] = Dispatch(@, token)]
       /\ UNCHANGED <<Hook, backoff, token, refreshToken, isRefreshing,
                      failedQueue, refreshes>>

\* A response with a 2xx status: the interceptor passes it on (422).
Response ==
    \E r \in Requests :
       /\ requests[r].status = "sent"
       /\ requests' = [requests EXCEPT ![r].status = "resolved"]
       /\ UNCHANGED <<Hook, backoff, token, refreshToken, isRefreshing,
                      failedQueue, refreshes>>

\* The response interceptor's error handler (423-469) for request r failing
\* with `status` (0: no response).  refreshAccessToken throws before its
\* first await when there is no refresh token (498-500): catch and finally
\* (458-466) then run in the microtasks of the same task.
ResponseError ==
    \E r \in Requests, status \in {401, 500, 0} :
       /\ requests[r].status = "sent"
       /\ IF status = 401 /\ ~requests[r]._retry
          THEN IF isRefreshing
               THEN /\ failedQueue' = Append(failedQueue, r)
                    /\ requests' = [requests EXCEPT ![r].status = "queued"]
                    /\ UNCHANGED <<token, refreshToken, isRefreshing,
                                   refreshes>>
               ELSE IF refreshToken = "null"
               THEN /\ refreshes' = refreshes + 1
                    /\ token' = 0
                    /\ refreshToken' = "null"
                    /\ requests' =
                          [q \in Requests |->
                             IF q = r
                             THEN [requests[q] EXCEPT
                                      !._retry = TRUE, !.status = "rejected",
                                      !.reason = "refreshError"]
                             ELSE IF q \in Queued
                             THEN [requests[q] EXCEPT
                                      !.status = "rejected",
                                      !.reason = "refreshError"]
                             ELSE requests[q]]
                    /\ failedQueue' = <<>>
                    /\ isRefreshing' = FALSE
               ELSE /\ refreshes' = refreshes + 1
                    /\ isRefreshing' = TRUE
                    /\ requests' = [requests EXCEPT ![r]._retry = TRUE,
                                                    ![r].status = "refreshing"]
                    /\ UNCHANGED <<token, refreshToken, failedQueue>>
          ELSE /\ requests' = [requests EXCEPT ![r].status = "rejected",
                                               ![r].reason = "ApiError"]
               /\ UNCHANGED <<token, refreshToken, isRefreshing, failedQueue,
                              refreshes>>
       /\ UNCHANGED <<Hook, backoff>>

\* refreshAccessToken's 500 ms are over and it returns a token no earlier
\* call returned (502-512); the handler that awaited it goes on (450-457,
\* 464-466): the queued requests and then the original one are dispatched
\* again, and `finally` runs before the handler's promise settles.
RefreshResolves ==
    \E r \in Refreshing :
       LET newToken == 1 + refreshes IN
       /\ token' = newToken
       /\ requests' =
             [q \in Requests |->
                IF q = r \/ q \in Queued
                THEN Dispatch([requests[q] EXCEPT !.Authorization = newToken,
                                                  !.retried = @ + 1],
                              newToken)
                ELSE requests[q]]
       /\ failedQueue' = <<>>
       /\ isRefreshing' = FALSE
       /\ UNCHANGED <<Hook, backoff, refreshToken, refreshes>>

InitApi ==
    /\ HookIdle
    /\ InitElsewhere

NextApi ==
    \/ setToken
    \/ setRefreshToken
    \/ clearToken
    \/ Request
    \/ Response
    \/ ResponseError
    \/ RefreshResolves

SpecApi == InitApi /\ [][NextApi]_vars

\* Claim C30: at most one token refresh is in flight at any time; while
\* one is, no other is started (a 401 arriving then is queued); the step
\* that finishes a refresh leaves the queue empty and isRefreshing false,
\* with every request that was queued either dispatched again with the new
\* token or rejected with the refresh error; and no request is retried
\* through a refresh more than once.
C30_SingleRefresh ==
    [][/\ Cardinality(Refreshing') <= 1
       /\ isRefreshing => refreshes' = refreshes
       /\ Refreshing # {} /\ Refreshing' = {} =>
             /\ failedQueue' = <<>>
             /\ ~isRefreshing'
             /\ \A q \in Queued :
                   \/ /\ requests'[q].status = "sent"
                      /\ requests'[q].Authorization = token'
                   \/ /\ requests'[q].status = "rejected"
                      /\ requests'[q].reason = "refreshError"
       /\ \A r \in Requests : requests'[r].retried <= 1]_vars

====
